---- MODULE Spec2Model ----
(***************************************************************************)
(* A model of the NES core in samshine/nes: the CPU interpreter loop       *)
(* (CPU::run), the CPU memory map (CPU::read / CPU::write), the stack      *)
(* helpers and the interrupt lines, with the PPU, the bus clock, the       *)
(* cartridge and the opcode handlers as far as the CPU code needs them.    *)
(*                                                                         *)
(* src/src/cpu.cpp is translated statement by statement.  cpu.h (the       *)
(* opcode handlers, the registers' initial values), ppu.cpp and the bus    *)
(* implementation are not part of the sources; what the model needs of     *)
(* them follows the specification and the interface documentation in       *)
(* src/include/bus.h.  The cartridge, the APU and the controllers are      *)
(* external: every byte they return is an input chosen by the environment. *)
(***************************************************************************)
EXTENDS Integers, Sequences, FiniteSets, TLC

VARIABLES
  \* ---- CPU (cpu.cpp) ----
  pc,            \* position of CPU::run: "reset", "fetch", "exec", "tick", "stopped"
  PC, SP, P, A, X, Y,
  memory,        \* the 2 KiB work RAM, [0..0x7ff -> byte]
  result_cycle,  \* extra cycles signalled by addcyc
  do_NMI,        \* the NMI latch (a process-wide bool in cpu.cpp)
  IRQ,           \* the IRQ line level
  _done,         \* the stop flag
  last_op, last_PC,
  i,             \* the counter of the clock loop of CPU::run
  \* ---- PPU (ppu.h, bus.h) ----
  OAM, OAMADDR, NMI_enabled, vblanking, scanline, cycle,
  loopy_w,       \* the write toggle of $2005/$2006
  scroll, vram,  \* the raw fields (16 bits) of the temporary and current VRAM address
  vramincr,      \* PPUCTRL bit 2: PPUDATA accesses add 32 rather than 1
  \* ---- controllers (bus.h) ----
  strobes,       \* strobe() calls each controller has received, [0..1 -> Nat]
  \* ---- history (not program state) ----
  h_icount,      \* opcodes fetched so far
  h_clock,       \* on_cpu_tick calls made since construction
  h_stack,       \* the last stack call made on its own: [op, x, r, sp, n] or <<>>
  h_ticks,       \* on_cpu_tick calls made for the instruction in progress
  h_penalty,     \* addcyc calls made by the instruction in progress
  h_event,       \* what the last instruction boundary did
  h_vec,         \* the last vector read: [addr, lo, hi]
  h_pulls,       \* pull_NMI calls since the last NMI service (capped at 2)
  h_served,      \* pull_NMI calls the last NMI service answered
  h_nmi_tick,    \* pull_NMI was called during the ticks of the instruction in progress
  h_nev,         \* calls the environment has made of pull_NMI, pull_IRQ, release_IRQ, stop
  h_dma,         \* the instruction in progress wrote $4014: [value, oamaddr, ext] or <<>>
  h_sread,       \* the instruction in progress read PPUSTATUS: [cyc, value] or <<>>
  h_vbl_tick,    \* the tick (1-based) of the instruction in progress that set vblank, or 0
  h_write,       \* the last call of CPU::write on its own: [value, addr, oamaddr, n] or <<>>
  h_read,        \* the last call of CPU::read by BusRead: [addr, ext, value, n] or <<>>,
                 \* n counting the calls of BusWrite and BusRead
  h_nbus         \* calls made by BusWrite and BusRead so far

cpuVars == <<pc, PC, SP, P, A, X, Y, memory, result_cycle, do_NMI, IRQ, _done,
             last_op, last_PC, i>>
ppuVars == <<OAM, OAMADDR, NMI_enabled, vblanking, scanline, cycle>>
ioVars == <<loopy_w, scroll, vram, vramincr, strobes>>
histVars == <<h_icount, h_clock, h_stack, h_ticks, h_penalty, h_event, h_vec, h_pulls, h_served, h_nmi_tick,
              h_nev, h_dma, h_sread, h_vbl_tick, h_write, h_read, h_nbus>>
vars == <<cpuVars, ppuVars, ioVars, histVars>>

\* ------------------------------------------------------------------ bounds

\* Opcodes CPU::run may fetch before the model stops exploring.
MaxInstr == 2

\* Calls of pull_NMI, pull_IRQ, release_IRQ and stop the environment makes in a run.
MaxEvents == 2

\* Calls of CPU::write / CPU::read the bus specification makes before it stops exploring.
MaxBusOps == 2

\* Calls of CPU::write / CPU::read the controller specification makes.
MaxPadOps == 3

\* Calls of push, push2, pull and pull2 the stack specification makes.
MaxStackOps == 3

\* Register accesses and CPU cycles of PPU dots the PPU-register specification makes.
MaxPpuOps == 5

\* ------------------------------------------------------------------ bytes

Bit(v, n) == (v \div (2 ^ n)) % 2

SetBit(v, n) == IF Bit(v, n) = 1 THEN v ELSE v + 2 ^ n

ClearBit(v, n) == IF Bit(v, n) = 1 THEN v - 2 ^ n ELSE v

\* ------------------------------------------------------------------ cpu.cpp

\* CPU cycle chart, cycles[opcode + 1]
cycles ==
  << 7,6,0,8,3,3,5,5,3,2,2,2,4,4,6,6,
     2,5,0,8,4,4,6,6,2,4,2,7,4,4,7,7,
     6,6,0,8,3,3,5,5,4,2,2,2,4,4,6,6,
     2,5,0,8,4,4,6,6,2,4,2,7,4,4,7,7,
     6,6,0,8,3,3,5,5,3,2,2,2,3,4,6,6,
     2,5,0,8,4,4,6,6,2,4,2,7,4,4,7,7,
     6,6,0,8,3,3,5,5,4,2,2,2,5,4,6,6,
     2,5,0,8,4,4,6,6,2,4,2,7,4,4,7,7,
     2,6,2,6,3,3,3,3,2,2,2,2,4,4,4,4,
     2,6,0,6,4,4,4,4,2,5,2,5,5,5,5,5,
     2,6,2,6,3,3,3,3,2,2,2,2,4,4,4,4,
     2,5,0,5,4,4,4,4,2,4,2,4,4,4,4,4,
     2,6,2,8,3,3,5,5,2,2,2,2,4,4,6,6,
     2,5,0,8,4,4,6,6,2,4,2,7,4,4,7,7,
     2,6,2,8,3,3,5,5,2,2,2,2,4,4,6,6,
     2,5,0,8,4,4,6,6,2,4,2,7,4,4,7,7 >>

CyclesOf(op) == cycles[op + 1]


\* ---- the memory map: CPU::read ----

\* ppu->regr_status(): PPUSTATUS is bits 16..23 of reg, vblanking its bit 7
\* (ppu.h); sprite-0 hit and sprite overflow are never set in this model.
regr_status == IF vblanking THEN 128 ELSE 0

\* ppu->regr_OAM_data(): the byte the OAM address points to (bus.h)
regr_OAM_data == OAM[OAMADDR]

\* Faulty variant: a read nothing answers returns what the external side drives
BadRead_external(ext) == ext

\* default: return 0, of both switches of CPU::read
BadRead(ext) == 0

\* The value CPU::read(addr) returns.  ext is the byte the external component
\* asked (PPUDATA, the APU, a controller, the cartridge) returns.
CPU_read(addr, ext) ==
  IF addr < \h2000 THEN memory[addr % \h800]                    \* addr & 0x7ff
  ELSE IF addr < \h4000 THEN
    CASE addr % 8 = 2 -> regr_status
      [] addr % 8 = 4 -> regr_OAM_data
      [] addr % 8 = 7 -> ext                                   \* ppu->regr_data()
      [] OTHER -> BadRead(ext)                                 \* bad read
  ELSE IF addr < \h4020 THEN
    CASE addr % 32 = \h15 -> ext                                 \* apu->read()
      [] addr % 32 = \h16 -> ext                                 \* controller[0]->read()
      [] addr % 32 = \h17 -> ext                                 \* controller[1]->read()
      [] OTHER -> BadRead(ext)
  ELSE ext                                                     \* rom->read_prg(addr)

\* Faulty variant: only $2002 itself is routed to regr_status, its mirrors are not
ReadClearsVblank_unmirrored(addr) == addr = \h2002

\* The reads CPU::read routes to regr_status, which clears the vblank flag and
\* resets the latch (bus.h): addr < 0x4000 and (addr & 7) == 2
ReadClearsVblank(addr) == addr >= \h2000 /\ addr < \h4000 /\ addr % 8 = 2

VblankAfterRead(addr) == IF ReadClearsVblank(addr) THEN FALSE ELSE vblanking

\* ---- the memory map: CPU::write ----

\* ppu->regw_OAM_data(value) on the OAM state o = [OAM, OAMADDR]:
\* write at the OAM address, then increment it (bus.h).
regw_OAM_data(o, value) ==
  [OAM |-> [o.OAM EXCEPT ![o.OAMADDR] = value], OAMADDR |-> (o.OAMADDR + 1) % 256]

\* The address the k-th read of the DMA loop is made at.
DmaSource(value, k) == (value % 8) * \h100 + k                  \* (value & 7) * 0x100 + i

\* The DMA loop of CPU::write, n iterations on the OAM state o: iteration k
\* (from 0) makes regw_OAM_data write the byte read at DmaSource(value, k) to
\* OAM address o.OAMADDR + k (mod 256), the address having been incremented
\* once by each earlier iteration; of the writes to one OAM address the last
\* one stays.  For OAM address j, first is the first iteration that writes it
\* and last the last one below n.  The addresses the loop reads are below
\* $0800, so no read of it sees the OAM it is writing.
DmaLoop(o, value, ext, n) ==
  [OAM |-> [j \in 0..255 |->
              LET first == (j - o.OAMADDR) % 256
                  last == first + 256 * ((n - 1 - first) \div 256)
              IN IF first >= n THEN o.OAM[j] ELSE CPU_read(DmaSource(value, last), ext)],
   OAMADDR |-> (o.OAMADDR + n) % 256]

\* for (int i = 0; i < 256; ++i)
DmaLength == 256

\* Faulty variant: only the first 2 KiB are written, the mirrors are not
WriteMemory_unmirrored(value, addr) ==
  IF addr < \h800 THEN [memory EXCEPT ![addr] = value] ELSE memory

\* The work RAM after CPU::write(value, addr)
WriteMemory(value, addr) ==
  IF addr < \h2000 THEN [memory EXCEPT ![addr % \h800] = value] ELSE memory

\* The OAM and its address after CPU::write(value, addr)
WriteOAM(value, addr, ext) ==
  LET o == [OAM |-> OAM, OAMADDR |-> OAMADDR] IN
  IF addr >= \h2000 /\ addr < \h4000 THEN
    CASE addr % 8 = 3 -> [o EXCEPT !.OAMADDR = value]          \* regw_OAM_address
      [] addr % 8 = 4 -> regw_OAM_data(o, value)
      [] OTHER -> o
  ELSE IF addr >= \h4000 /\ addr < \h4020 /\ addr % 32 = \h14 THEN DmaLoop(o, value, ext, DmaLength)
  ELSE o

\* PPUCTRL bit 7 after CPU::write(value, addr): regw_control sets NMI_enabled
WriteNmiEnabled(value, addr) ==
  IF addr >= \h2000 /\ addr < \h4000 /\ addr % 8 = 0 THEN Bit(value, 7) = 1 ELSE NMI_enabled

\* ---- the PPU's address registers (ppu.h: scroll, vram, loopy_w) ----

\* A bit field of width bits at bit lo of raw, set to val (val cut to the width)
FieldSet(raw, lo, width, val) ==
  raw - ((raw \div 2^lo) % 2^width) * 2^lo + (val % 2^width) * 2^lo

\* raw is bit<3,16> of the union: 16 bits
RawWidth == 16

\* The registers as a record
PpuRegs == [loopy_w |-> loopy_w, scroll |-> scroll, vram |-> vram, vramincr |-> vramincr]

\* regw_control: the nametable bits of scroll (base_nta, bits 10-11 of raw) and
\* the increment (PPUCTRL bit 2)
regw_control(r, value) ==
  [r EXCEPT !.scroll = FieldSet(r.scroll, 10, 2, value), !.vramincr = (Bit(value, 2) = 1)]

\* regw_scroll: x on the first write (xcoarse, bits 0-4 of raw), y on the second
\* (yfine, bits 12-14, and ycoarse, bits 5-9); toggles the latch
regw_scroll(r, value) ==
  IF r.loopy_w
  THEN [r EXCEPT !.scroll = FieldSet(FieldSet(r.scroll, 12, 3, value), 5, 5, value \div 8),
                 !.loopy_w = FALSE]
  ELSE [r EXCEPT !.scroll = FieldSet(r.scroll, 0, 5, value \div 8), !.loopy_w = TRUE]

\* regw_address: the upper byte on the first write (vaddr_hi, bits 8-15 of raw,
\* from the low 6 bits of value), the lower byte on the second (vaddr_lo, bits
\* 0-7), which also copies scroll to vram; toggles the latch
regw_address(r, value) ==
  IF r.loopy_w
  THEN [r EXCEPT !.scroll = FieldSet(r.scroll, 0, 8, value),
                 !.vram = FieldSet(r.scroll, 0, 8, value),
                 !.loopy_w = FALSE]
  ELSE [r EXCEPT !.scroll = FieldSet(r.scroll, 8, 8, value % 64), !.loopy_w = TRUE]

\* regw_data / regr_data: the vram address is incremented by 1 or 32 after the
\* access, within the raw field
VramIncrement(r) ==
  [r EXCEPT !.vram = (r.vram + (IF r.vramincr THEN 32 ELSE 1)) % 2^RawWidth]

\* The PPU's address registers after CPU::write(value, addr)
WritePpuRegs(value, addr) ==
  IF addr >= \h2000 /\ addr < \h4000 THEN
    CASE addr % 8 = 0 -> regw_control(PpuRegs, value)
      [] addr % 8 = 5 -> regw_scroll(PpuRegs, value)
      [] addr % 8 = 6 -> regw_address(PpuRegs, value)
      [] addr % 8 = 7 -> VramIncrement(PpuRegs)
      [] OTHER -> PpuRegs
  ELSE PpuRegs

\* The PPU's address registers after CPU::read(addr): regr_status resets the
\* latch, regr_data increments the vram address
ReadPpuRegs(addr) ==
  IF addr >= \h2000 /\ addr < \h4000 THEN
    CASE ReadClearsVblank(addr) -> [PpuRegs EXCEPT !.loopy_w = FALSE]
      [] addr % 8 = 7 -> VramIncrement(PpuRegs)
      [] OTHER -> PpuRegs
  ELSE PpuRegs

\* What CPU::read(addr) does to the PPU's address registers, as a step
ReadSideEffects(addr) ==
  /\ loopy_w' = ReadPpuRegs(addr).loopy_w
  /\ vram' = ReadPpuRegs(addr).vram
  /\ UNCHANGED <<scroll, vramincr, strobes>>

\* ---- the controllers ----

\* Faulty variant: every write to $4016 strobes both controllers
StrobeTargets_both(value) == {0, 1}

\* controller[value & 1]
StrobeTargets(value) == {value % 2}

\* The strobe() calls the controllers have received after CPU::write(value, addr)
WriteStrobes(value, addr) ==
  IF addr >= \h4000 /\ addr < \h4020 /\ addr % 32 = \h16
  THEN [c \in 0..1 |-> IF c \in StrobeTargets(value) THEN strobes[c] + 1 ELSE strobes[c]]
  ELSE strobes

IsDmaWrite(addr) == addr >= \h4000 /\ addr < \h4020 /\ addr % 32 = \h14

\* CPU::write(value, addr) as a step: the work RAM and the PPU registers after it.
\* Writes to the APU, the controllers and the cartridge leave the CPU and the
\* PPU as they are.
CPU_write(value, addr, ext) ==
  /\ memory' = WriteMemory(value, addr)
  /\ OAM' = WriteOAM(value, addr, ext).OAM
  /\ OAMADDR' = WriteOAM(value, addr, ext).OAMADDR
  /\ NMI_enabled' = WriteNmiEnabled(value, addr)
  /\ loopy_w' = WritePpuRegs(value, addr).loopy_w
  /\ scroll' = WritePpuRegs(value, addr).scroll
  /\ vram' = WritePpuRegs(value, addr).vram
  /\ vramincr' = WritePpuRegs(value, addr).vramincr
  /\ strobes' = WriteStrobes(value, addr)

\* ---- the stack ----

\* Faulty variant: SP is decremented without the 8-bit wrap
push_nowrap(s, x) ==
  [memory |-> [s.memory EXCEPT ![256 + s.SP] = x], SP |-> s.SP - 1]

\* CPU::push(x) on the stack state s = [memory, SP]
push(s, x) ==
  [memory |-> [s.memory EXCEPT ![256 + s.SP] = x], SP |-> (s.SP - 1) % 256]

\* CPU::push2(x): high byte first
push2(s, x) == push(push(s, x \div 256), x % 256)

\* CPU::pull(): [memory, SP, r] with r the byte pulled
pull(s) ==
  LET sp == (s.SP + 1) % 256 IN [memory |-> s.memory, SP |-> sp, r |-> s.memory[256 + sp]]

\* CPU::pull2(): low byte first
pull2(s) ==
  LET a == pull(s)
      b == pull(a)
  IN [memory |-> s.memory, SP |-> b.SP, r |-> a.r + 256 * b.r]


\* CPU::addcyc(): the extra-cycle counter after one call
addcyc(rc) == rc + 1

\* CPU::pull_NMI(): the latch after the call
pull_NMI == TRUE

\* CPU::pull_IRQ() / CPU::release_IRQ(): the line after the call
pull_IRQ == TRUE

release_IRQ == FALSE

\* CPU::stop(): the flag after the call
stop == TRUE

\* ------------------------------------------------------------------ registers (cpu.h)

I_FLAG == 2      \* bit number of the interrupt-disable flag of P (mask $04)
Z_FLAG == 1      \* bit number of the zero flag (mask $02)
N_FLAG == 7      \* bit number of the negative flag (mask $80)
B_FLAG == 4      \* bit number of the break flag (mask $10)
U_FLAG == 5      \* bit number of the unused flag (mask $20)

SP_init == \hFD

P_init == \h24

\* What stack_push<&CPU::ProcStatus>() pushes: P with B clear and bit 5 set
ProcStatus == SetBit(ClearBit(P, B_FLAG), U_FLAG)

\* N and Z of P set from a result byte
SetZN(p, v) ==
  LET z == IF v = 0 THEN SetBit(p, Z_FLAG) ELSE ClearBit(p, Z_FLAG)
  IN IF v >= 128 THEN SetBit(z, N_FLAG) ELSE ClearBit(z, N_FLAG)

\* ------------------------------------------------------------------ the PPU clock (ppu.h)

scanline_end == 341

ScanlinesPerFrame == 262

VblankLine == 241

PreRenderLine == 261

\* PPU::tick() on s = [scanline, cycle, vblanking, nmi]: one dot.  The vblank flag
\* is set at dot 1 of line 241 (and the NMI pulled if PPUCTRL enables it) and
\* cleared at dot 1 of the pre-render line.
PpuTick(s) ==
  LET c  == IF s.cycle + 1 >= scanline_end THEN 0 ELSE s.cycle + 1
      sl == IF s.cycle + 1 >= scanline_end THEN (s.scanline + 1) % ScanlinesPerFrame
            ELSE s.scanline
      set == sl = VblankLine /\ c = 1
      clr == sl = PreRenderLine /\ c = 1
  IN [scanline |-> sl, cycle |-> c,
      vblanking |-> IF set THEN TRUE ELSE IF clr THEN FALSE ELSE s.vblanking,
      nmi |-> s.nmi \/ (set /\ NMI_enabled)]

\* The PPU after the three dots of one CPU cycle
PpuCycle == PpuTick(PpuTick(PpuTick(
  [scanline |-> scanline, cycle |-> cycle, vblanking |-> vblanking, nmi |-> FALSE])))

\* ------------------------------------------------------------------ the environment

\* Opcodes the cartridge returns at an opcode fetch:
\* an unimplemented opcode ($02), CLI, SEI, STA abs, LDA abs, BNE rel
OpcodeSet == {\h02, \h58, \h78, \h8D, \hAD, \hD0}

\* Absolute operands the cartridge returns to a store: PPUCTRL, OAM DMA
StoreAddrs == {\h2000, \h4014}

\* Absolute operands the cartridge returns to a load: work RAM, PPUSTATUS
LoadAddrs == {\h0008, \h2002}

\* Branch offsets the cartridge returns
BranchSet == {\h02, \h7F}

\* Reset vectors the cartridge holds at $FFFC/$FFFD (every vector points into
\* the cartridge, where the opcodes come from)
ResetVectors == {\h8034, \hC1FE}

\* The vectors the cartridge holds at $FFFE/$FFFF and at $FFFA/$FFFB
IrqVectors == {\h9000}

NmiVectors == {\hA0FE}

\* What may happen during one call of bus->on_cpu_tick(), besides the PPU's dots
TickEvents == {"none", "pull_NMI", "pull_IRQ", "release_IRQ", "stop"}

\* ------------------------------------------------------------------ Init

\* The state after the constructors (CPU::CPU, the PPU's member initialisers)
InitExceptSP ==
  /\ pc = "reset"
  /\ PC = 0 /\ P = P_init /\ A = 0 /\ X = 0 /\ Y = 0
  /\ memory = [a \in 0..\h7ff |->
       CASE a = \h008 -> \hf7 [] a = \h009 -> \hef [] a = \h00a -> \hdf
         [] a = \h00f -> \hbf [] a = \h1fc -> \h69 [] OTHER -> 0]
  /\ result_cycle = 0 /\ do_NMI = FALSE /\ IRQ = FALSE /\ _done = FALSE
  /\ last_op = 0 /\ last_PC = 0 /\ i = 0
  /\ OAM = [k \in 0..255 |-> 0] /\ OAMADDR = 0
  /\ NMI_enabled = FALSE /\ vblanking = FALSE /\ scanline = 241 /\ cycle = 0
  /\ loopy_w = FALSE /\ scroll = 0 /\ vram = 0 /\ vramincr = FALSE
  /\ strobes = [c \in 0..1 |-> 0]
  /\ h_icount = 0 /\ h_clock = 0 /\ h_stack = <<>> /\ h_ticks = 0 /\ h_penalty = 0 /\ h_event = "init"
  /\ h_vec = <<>> /\ h_pulls = 0 /\ h_served = 0 /\ h_nmi_tick = FALSE /\ h_nev = 0
  /\ h_dma = <<>> /\ h_sread = <<>> /\ h_vbl_tick = 0 /\ h_write = <<>> /\ h_read = <<>> /\ h_nbus = 0

Init == SP = SP_init /\ InitExceptSP

\* ------------------------------------------------------------------ CPU::run

\* Faulty variant: the byte at v is taken as the high byte
ReadVector_swapped(v, lo, hi) == 256 * CPU_read(v, lo) + CPU_read(v + 1, hi)

\* read(v) | (read(v + 1) << 8) with lo and hi the bytes the cartridge returns
ReadVector(v, lo, hi) == CPU_read(v, lo) + 256 * CPU_read(v + 1, hi)

RESET_VECTOR == \hfffc

IRQ_VECTOR == \hfffe

NMI_VECTOR == \hfffa

\* PC = read(0xfffc) | (read(0xfffd) << 8), before the loop
Reset ==
  /\ pc = "reset"
  /\ \E v \in ResetVectors :
       /\ PC' = ReadVector(RESET_VECTOR, v % 256, v \div 256)
       /\ h_vec' = [addr |-> RESET_VECTOR, lo |-> v % 256, hi |-> v \div 256]
  /\ pc' = "fetch"
  /\ h_event' = "reset"
  /\ UNCHANGED <<SP, P, A, X, Y, memory, result_cycle, do_NMI, IRQ, _done,
                 last_op, last_PC, i>>
  /\ UNCHANGED ppuVars
  /\ UNCHANGED ioVars
  /\ UNCHANGED <<h_icount, h_clock, h_stack, h_ticks, h_penalty, h_pulls, h_served, h_nmi_tick, h_nev,
                 h_dma, h_sread, h_vbl_tick, h_write, h_read, h_nbus>>

\* last_PC = PC; last_op = next();
Fetch ==
  /\ pc = "fetch"
  /\ h_icount < MaxInstr
  /\ \E e \in OpcodeSet :
       /\ CPU_read(PC, e) \in OpcodeSet
       /\ last_op' = CPU_read(PC, e)
  /\ last_PC' = PC
  /\ PC' = (PC + 1) % \h10000
  /\ vblanking' = VblankAfterRead(PC)
  /\ ReadSideEffects(PC)
  /\ pc' = "exec"
  /\ h_icount' = h_icount + 1
  /\ UNCHANGED <<h_clock, h_stack>>
  /\ h_ticks' = 0 /\ h_penalty' = 0 /\ h_nmi_tick' = FALSE
  /\ h_dma' = <<>> /\ h_sread' = <<>> /\ h_vbl_tick' = 0
  /\ UNCHANGED <<SP, P, A, X, Y, memory, result_cycle, do_NMI, IRQ, _done, i>>
  /\ UNCHANGED <<OAM, OAMADDR, NMI_enabled, scanline, cycle>>
  /\ UNCHANGED <<h_event, h_vec, h_pulls, h_served, h_nev, h_write, h_read, h_nbus>>

\* ---- (this->*ops[last_op])(): the opcode handlers (cpu.h) ----

\* What every handler leaves alone, and the move to the clock loop (int i = 0)
ExecDone ==
  /\ pc' = "tick"
  /\ i' = 0
  /\ UNCHANGED <<SP, X, Y, do_NMI, IRQ, _done, last_op, last_PC, scanline, cycle>>
  /\ UNCHANGED <<h_icount, h_clock, h_stack, h_ticks, h_event, h_vec, h_pulls, h_served, h_nmi_tick, h_nev,
                 h_vbl_tick, h_write, h_read, h_nbus>>

NoBusAccess ==
  /\ UNCHANGED <<memory, OAM, OAMADDR, NMI_enabled, vblanking, h_dma, h_sread>>
  /\ UNCHANGED ioVars

NoPenalty == UNCHANGED <<result_cycle, h_penalty>>

\* $58 CLI
Op_CLI ==
  /\ pc = "exec" /\ last_op = \h58
  /\ P' = ClearBit(P, I_FLAG)
  /\ UNCHANGED <<PC, A>>
  /\ NoBusAccess /\ NoPenalty /\ ExecDone

\* $78 SEI
Op_SEI ==
  /\ pc = "exec" /\ last_op = \h78
  /\ P' = SetBit(P, I_FLAG)
  /\ UNCHANGED <<PC, A>>
  /\ NoBusAccess /\ NoPenalty /\ ExecDone

\* $8D STA abs: write(A, next2())
Op_STA_ABS ==
  /\ pc = "exec" /\ last_op = \h8D
  /\ \E a \in StoreAddrs :
       LET addr == CPU_read(PC, a % 256) + 256 * CPU_read((PC + 1) % \h10000, a \div 256)
       IN /\ CPU_write(A, addr, 0)
          /\ h_dma' = IF IsDmaWrite(addr) THEN [value |-> A, oamaddr |-> OAMADDR, ext |-> 0]
                      ELSE h_dma
  /\ PC' = (PC + 2) % \h10000
  /\ UNCHANGED <<A, P, vblanking, h_sread>>
  /\ NoPenalty /\ ExecDone

\* $AD LDA abs: A = read(next2()), in the 4th cycle of the instruction
Op_LDA_ABS ==
  /\ pc = "exec" /\ last_op = \hAD
  /\ \E a \in LoadAddrs :
       LET addr == CPU_read(PC, a % 256) + 256 * CPU_read((PC + 1) % \h10000, a \div 256)
           v == CPU_read(addr, 0)
       IN /\ A' = v
          /\ P' = SetZN(P, v)
          /\ vblanking' = VblankAfterRead(addr)
          /\ ReadSideEffects(addr)
          /\ h_sread' = IF ReadClearsVblank(addr)
                        THEN [cyc |-> CyclesOf(last_op), value |-> v] ELSE h_sread
  /\ PC' = (PC + 2) % \h10000
  /\ UNCHANGED <<memory, OAM, OAMADDR, NMI_enabled, h_dma>>
  /\ NoPenalty /\ ExecDone

\* $D0 BNE rel: when Z is clear, branch and call addcyc once, and once more when
\* the target is on another page than the branch
Op_BNE ==
  /\ pc = "exec" /\ last_op = \hD0
  /\ \E e \in BranchSet :
       LET off == CPU_read(PC, e)
           nxt == (PC + 1) % \h10000
           tgt == (nxt + (IF off >= 128 THEN off - 256 ELSE off)) % \h10000
           crossed == (tgt \div 256) # (last_PC \div 256)
       IN IF Bit(P, Z_FLAG) = 0
          THEN /\ PC' = tgt
               /\ result_cycle' = IF crossed THEN addcyc(addcyc(result_cycle))
                                  ELSE addcyc(result_cycle)
               /\ h_penalty' = h_penalty + (IF crossed THEN 2 ELSE 1)
          ELSE /\ PC' = nxt
               /\ NoPenalty
  /\ UNCHANGED <<A, P>>
  /\ NoBusAccess /\ ExecDone

\* An opcode whose entry of the cycle table is 0 (here $02): the handler does
\* nothing
Op_Unimplemented ==
  /\ pc = "exec" /\ CyclesOf(last_op) = 0
  /\ UNCHANGED <<PC, A, P>>
  /\ NoBusAccess /\ NoPenalty /\ ExecDone

Exec == Op_CLI \/ Op_SEI \/ Op_STA_ABS \/ Op_LDA_ABS \/ Op_BNE \/ Op_Unimplemented

\* ---- the clock loop ----

\* cycles[last_op] + result_cycle, the bound of the clock loop
LoopBound == CyclesOf(last_op) + result_cycle

\* for (int i = 0; i < cycles[last_op] + result_cycle; ++i) bus->on_cpu_tick();
\* one iteration.  The bus runs the PPU's three dots; the PPU and whatever else
\* the bus clocks may call pull_NMI, pull_IRQ, release_IRQ or stop meanwhile
\* (of pull_IRQ, release_IRQ and stop only the calls that change the line).
Tick ==
  /\ pc = "tick"
  /\ i < LoopBound
  /\ \E ev \in TickEvents :
       /\ ev # "none" => h_nev < MaxEvents
       /\ ev = "pull_IRQ" => ~IRQ
       /\ ev = "release_IRQ" => IRQ
       /\ ev = "stop" => ~_done
       /\ h_nev' = IF ev = "none" THEN h_nev ELSE h_nev + 1
       /\ LET nmi == PpuCycle.nmi \/ ev = "pull_NMI" IN
            /\ do_NMI' = IF nmi THEN pull_NMI ELSE do_NMI
            /\ h_pulls' = IF nmi THEN (IF h_pulls < 2 THEN h_pulls + 1 ELSE 2) ELSE h_pulls
            /\ h_nmi_tick' = (h_nmi_tick \/ nmi)
       /\ IRQ' = CASE ev = "pull_IRQ" -> pull_IRQ
                   [] ev = "release_IRQ" -> release_IRQ
                   [] OTHER -> IRQ
       /\ _done' = IF ev = "stop" THEN stop ELSE _done
  /\ scanline' = PpuCycle.scanline
  /\ cycle' = PpuCycle.cycle
  /\ vblanking' = PpuCycle.vblanking
  /\ h_vbl_tick' = IF PpuCycle.vblanking /\ ~vblanking THEN i + 1 ELSE h_vbl_tick
  /\ i' = i + 1
  /\ h_ticks' = h_ticks + 1
  /\ h_clock' = h_clock + 1
  /\ UNCHANGED <<pc, PC, SP, P, A, X, Y, memory, result_cycle, last_op, last_PC>>
  /\ UNCHANGED <<OAM, OAMADDR, NMI_enabled>>
  /\ UNCHANGED ioVars
  /\ UNCHANGED <<h_icount, h_stack, h_penalty, h_event, h_vec, h_served, h_dma, h_sread,
                 h_write, h_read, h_nbus>>

\* ---- the instruction boundary ----

\* The clock loop is over: run() is at result_cycle = 0
AtBoundary == pc = "tick" /\ i >= LoopBound

\* Faulty variant: the extra-cycle counter is not cleared after the clock loop
ResultCycleKept == result_cycle

\* result_cycle = 0
ResultCycleReset == 0

\* Faulty variant: the IRQ branch does not look at the I flag
TakesIRQ_unmasked == IRQ

\* IRQ && ((P & I_FLAG) == 0)
TakesIRQ == IRQ /\ Bit(P, I_FLAG) = 0

\* else if (do_NMI)
TakesNMI == ~TakesIRQ /\ do_NMI

\* P |= I_FLAG, in the IRQ branch
P_afterIRQ == SetBit(P, I_FLAG)

\* The NMI branch leaves P as it is
P_afterNMI == P

\* Faulty variant: the NMI branch leaves the latch set
NMI_keptAfterService == do_NMI

\* do_NMI = false, in the NMI branch
NMI_afterService == FALSE

\* The IRQ branch leaves the IRQ line as it is
IRQ_afterService == IRQ

\* Faulty variant: the status byte is pushed before PC
PushFrame_statusFirst == push2(push([memory |-> memory, SP |-> SP], ProcStatus), PC)

\* push2(PC); stack_push<&CPU::ProcStatus>();
PushFrame == push(push2([memory |-> memory, SP |-> SP], PC), ProcStatus)

BoundaryCommon ==
  /\ AtBoundary
  /\ result_cycle' = ResultCycleReset
  /\ UNCHANGED <<A, X, Y, _done, last_op, last_PC, i>>
  /\ UNCHANGED ppuVars
  /\ UNCHANGED ioVars
  /\ UNCHANGED <<h_icount, h_clock, h_stack, h_ticks, h_penalty, h_nmi_tick, h_nev, h_dma, h_sread,
                 h_vbl_tick, h_write, h_read, h_nbus>>

\* Faulty variant: the stop flag is not looked at
BreaksLoop_never == FALSE

\* if (_done)
BreaksLoop == _done

\* if (_done) break;
Stopped ==
  /\ BoundaryCommon
  /\ BreaksLoop
  /\ pc' = "stopped"
  /\ h_event' = "stop"
  /\ UNCHANGED <<PC, SP, P, memory, do_NMI, IRQ, h_vec, h_pulls, h_served>>

\* if (IRQ && ((P & I_FLAG) == 0)) { ... }
ServiceIRQ ==
  /\ BoundaryCommon
  /\ ~BreaksLoop
  /\ TakesIRQ
  /\ memory' = PushFrame.memory
  /\ SP' = PushFrame.SP
  /\ P' = P_afterIRQ
  /\ \E v \in IrqVectors :
       /\ PC' = ReadVector(IRQ_VECTOR, v % 256, v \div 256)
       /\ h_vec' = [addr |-> IRQ_VECTOR, lo |-> v % 256, hi |-> v \div 256]
  /\ IRQ' = IRQ_afterService
  /\ pc' = "fetch"
  /\ h_event' = "irq"
  /\ UNCHANGED <<do_NMI, h_pulls, h_served>>

\* else if (do_NMI) { ... }
ServiceNMI ==
  /\ BoundaryCommon
  /\ ~BreaksLoop
  /\ TakesNMI
  /\ do_NMI' = NMI_afterService
  /\ memory' = PushFrame.memory
  /\ SP' = PushFrame.SP
  /\ P' = P_afterNMI
  /\ \E v \in NmiVectors :
       /\ PC' = ReadVector(NMI_VECTOR, v % 256, v \div 256)
       /\ h_vec' = [addr |-> NMI_VECTOR, lo |-> v % 256, hi |-> v \div 256]
  /\ pc' = "fetch"
  /\ h_event' = "nmi"
  /\ h_pulls' = 0
  /\ h_served' = h_pulls
  /\ UNCHANGED <<IRQ>>

\* neither branch: back to the top of the loop
NoInterrupt ==
  /\ BoundaryCommon
  /\ ~BreaksLoop
  /\ ~TakesIRQ /\ ~TakesNMI
  /\ pc' = "fetch"
  /\ h_event' = "none"
  /\ UNCHANGED <<PC, SP, P, memory, do_NMI, IRQ, h_vec, h_pulls, h_served>>

Next ==
  \/ Reset
  \/ Fetch
  \/ Exec
  \/ Tick
  \/ Stopped
  \/ ServiceIRQ
  \/ ServiceNMI
  \/ NoInterrupt

Spec == Init /\ [][Next]_vars


\* ------------------------------------------------------------------ the bus alone

\* Bytes written and addresses used by the calls of CPU::write and CPU::read
\* below: a work-RAM address and one of its mirrors, PPUSTATUS, OAMADDR,
\* OAMDATA, OAM DMA, the cartridge
BusValues == {\h00, \h80}

BusAddrs == {\h0008, \h0808, \h2002, \h2003, \h2004, \h4014, \h8000}

\* Bytes the external components return
ExtBytes == {\hA5}

\* A call of CPU::write(value, addr) on its own
BusWrite ==
  /\ pc = "reset"
  /\ h_nbus < MaxBusOps
  /\ \E value \in BusValues, addr \in BusAddrs :
       /\ CPU_write(value, addr, 0)
       /\ h_write' = [value |-> value, addr |-> addr, oamaddr |-> OAMADDR, n |-> h_nbus + 1]
  /\ h_nbus' = h_nbus + 1
  /\ UNCHANGED <<pc, PC, SP, P, A, X, Y, result_cycle, do_NMI, IRQ, _done,
                 last_op, last_PC, i>>
  /\ UNCHANGED <<vblanking, scanline, cycle>>
  /\ UNCHANGED <<h_icount, h_clock, h_stack, h_ticks, h_penalty, h_event, h_vec, h_pulls, h_served, h_nmi_tick,
                 h_nev, h_dma, h_sread, h_vbl_tick, h_read>>

\* A call of CPU::read(addr) on its own
BusRead ==
  /\ pc = "reset"
  /\ h_nbus < MaxBusOps
  /\ \E addr \in BusAddrs, ext \in ExtBytes :
       /\ h_read' = [addr |-> addr, ext |-> ext, value |-> CPU_read(addr, ext),
                   n |-> h_nbus + 1]
       /\ vblanking' = VblankAfterRead(addr)
       /\ ReadSideEffects(addr)
  /\ h_nbus' = h_nbus + 1
  /\ UNCHANGED cpuVars
  /\ UNCHANGED <<OAM, OAMADDR, NMI_enabled, scanline, cycle>>
  /\ UNCHANGED <<h_icount, h_clock, h_stack, h_ticks, h_penalty, h_event, h_vec, h_pulls, h_served, h_nmi_tick,
                 h_nev, h_dma, h_sread, h_vbl_tick, h_write>>

NextBus == BusWrite \/ BusRead

SpecBus == Init /\ [][NextBus]_vars


\* ------------------------------------------------------------------ the controller ports alone

\* Bytes written to $4016, the ports read, and the bytes the controllers return
PadValues == {\h00, \h01, \h80, \h81}

PadPorts == {\h4016, \h4017}

PadBytes == {\h00, \h01}

CONTROLLER_STROBE == \h4016

\* CPU::write(value, 0x4016) on its own
PadWrite ==
  /\ pc = "reset"
  /\ h_nbus < MaxPadOps
  /\ \E value \in PadValues :
       /\ CPU_write(value, CONTROLLER_STROBE, 0)
       /\ h_write' = [value |-> value, addr |-> CONTROLLER_STROBE, oamaddr |-> OAMADDR,
                       n |-> h_nbus + 1]
  /\ h_nbus' = h_nbus + 1
  /\ UNCHANGED <<pc, PC, SP, P, A, X, Y, result_cycle, do_NMI, IRQ, _done,
                 last_op, last_PC, i>>
  /\ UNCHANGED <<vblanking, scanline, cycle>>
  /\ UNCHANGED <<h_icount, h_clock, h_stack, h_ticks, h_penalty, h_event, h_vec, h_pulls, h_served, h_nmi_tick,
                 h_nev, h_dma, h_sread, h_vbl_tick, h_read>>

\* CPU::read(0x4016) or CPU::read(0x4017) on its own
PadRead ==
  /\ pc = "reset"
  /\ h_nbus < MaxPadOps
  /\ \E addr \in PadPorts, ext \in PadBytes :
       /\ h_read' = [addr |-> addr, ext |-> ext, value |-> CPU_read(addr, ext),
                      n |-> h_nbus + 1]
       /\ vblanking' = VblankAfterRead(addr)
       /\ ReadSideEffects(addr)
  /\ h_nbus' = h_nbus + 1
  /\ UNCHANGED cpuVars
  /\ UNCHANGED <<OAM, OAMADDR, NMI_enabled, scanline, cycle>>
  /\ UNCHANGED <<h_icount, h_clock, h_stack, h_ticks, h_penalty, h_event, h_vec, h_pulls, h_served, h_nmi_tick,
                 h_nev, h_dma, h_sread, h_vbl_tick, h_write>>

NextPad == PadWrite \/ PadRead

SpecPad == Init /\ [][NextPad]_vars


\* ------------------------------------------------------------------ the PPU registers alone

\* Bytes written, the registers written (PPUCTRL, PPUSCROLL, PPUADDR and a mirror
\* of PPUDATA) and read (PPUSTATUS, a mirror of it, PPUDATA)
PpuValues == {\h00, \hFF}

PpuWriteAddrs == {\h2000, \h2005, \h2006, \h3FFF}

PpuReadAddrs == {\h2002, \h3FFA, \h2007}

\* CPU::write(value, addr) to a PPU register, on its own
PpuWrite ==
  /\ pc = "reset"
  /\ h_nbus < MaxPpuOps
  /\ \E value \in PpuValues, addr \in PpuWriteAddrs :
       /\ CPU_write(value, addr, 0)
       /\ h_write' = [value |-> value, addr |-> addr, oamaddr |-> OAMADDR, n |-> h_nbus + 1]
  /\ h_nbus' = h_nbus + 1
  /\ UNCHANGED <<pc, PC, SP, P, A, X, Y, result_cycle, do_NMI, IRQ, _done,
                 last_op, last_PC, i>>
  /\ UNCHANGED <<vblanking, scanline, cycle>>
  /\ UNCHANGED <<h_icount, h_clock, h_stack, h_ticks, h_penalty, h_event, h_vec, h_pulls, h_served, h_nmi_tick,
                 h_nev, h_dma, h_sread, h_vbl_tick, h_read>>

\* CPU::read(addr) of a PPU register, on its own
PpuRead ==
  /\ pc = "reset"
  /\ h_nbus < MaxPpuOps
  /\ \E addr \in PpuReadAddrs :
       /\ h_read' = [addr |-> addr, ext |-> 0, value |-> CPU_read(addr, 0), n |-> h_nbus + 1]
       /\ vblanking' = VblankAfterRead(addr)
       /\ ReadSideEffects(addr)
  /\ h_nbus' = h_nbus + 1
  /\ UNCHANGED cpuVars
  /\ UNCHANGED <<OAM, OAMADDR, NMI_enabled, scanline, cycle>>
  /\ UNCHANGED <<h_icount, h_clock, h_stack, h_ticks, h_penalty, h_event, h_vec, h_pulls, h_served, h_nmi_tick,
                 h_nev, h_dma, h_sread, h_vbl_tick, h_write>>

\* The three PPU dots of one CPU cycle, on their own
PpuDots ==
  /\ pc = "reset"
  /\ h_nbus < MaxPpuOps
  /\ scanline' = PpuCycle.scanline
  /\ cycle' = PpuCycle.cycle
  /\ vblanking' = PpuCycle.vblanking
  /\ do_NMI' = IF PpuCycle.nmi THEN pull_NMI ELSE do_NMI
  /\ h_nbus' = h_nbus + 1
  /\ UNCHANGED <<pc, PC, SP, P, A, X, Y, memory, result_cycle, IRQ, _done,
                 last_op, last_PC, i>>
  /\ UNCHANGED <<OAM, OAMADDR, NMI_enabled>>
  /\ UNCHANGED ioVars
  /\ UNCHANGED <<h_icount, h_clock, h_stack, h_ticks, h_penalty, h_event, h_vec, h_pulls, h_served, h_nmi_tick,
                 h_nev, h_dma, h_sread, h_vbl_tick, h_write, h_read>>

NextPpu == PpuWrite \/ PpuRead \/ PpuDots

SpecPpu == Init /\ [][NextPpu]_vars


\* ------------------------------------------------------------------ the stack alone

\* Values of SP the calls start from (SP is any byte once code has run), the
\* bytes and the words pushed
StackStarts == {\h00, \h01, \h02, \hFD, \hFE, \hFF}

StackBytes == {\h00, \hA5}

StackWords == {\h12AB, \hFF00}

InitStack == SP \in StackStarts /\ InitExceptSP

\* What a stack call on its own leaves alone
StackFrame ==
  /\ pc = "reset"
  /\ h_nbus < MaxStackOps
  /\ h_nbus' = h_nbus + 1
  /\ UNCHANGED <<pc, PC, P, A, X, Y, result_cycle, do_NMI, IRQ, _done, last_op, last_PC, i>>
  /\ UNCHANGED ppuVars
  /\ UNCHANGED ioVars
  /\ UNCHANGED <<h_icount, h_clock, h_ticks, h_penalty, h_event, h_vec, h_pulls, h_served,
                 h_nmi_tick, h_nev, h_dma, h_sread, h_vbl_tick, h_write, h_read>>

StackState == [memory |-> memory, SP |-> SP]

\* CPU::push(x)
StackPush ==
  /\ StackFrame
  /\ \E x \in StackBytes :
       /\ memory' = push(StackState, x).memory
       /\ SP' = push(StackState, x).SP
       /\ h_stack' = [op |-> "push", x |-> x, r |-> 0, sp |-> SP, n |-> h_nbus + 1]

\* CPU::push2(x)
StackPush2 ==
  /\ StackFrame
  /\ \E x \in StackWords :
       /\ memory' = push2(StackState, x).memory
       /\ SP' = push2(StackState, x).SP
       /\ h_stack' = [op |-> "push2", x |-> x, r |-> 0, sp |-> SP, n |-> h_nbus + 1]

\* CPU::pull()
StackPull ==
  /\ StackFrame
  /\ memory' = pull(StackState).memory
  /\ SP' = pull(StackState).SP
  /\ h_stack' = [op |-> "pull", x |-> 0, r |-> pull(StackState).r, sp |-> SP, n |-> h_nbus + 1]

\* CPU::pull2()
StackPull2 ==
  /\ StackFrame
  /\ memory' = pull2(StackState).memory
  /\ SP' = pull2(StackState).SP
  /\ h_stack' = [op |-> "pull2", x |-> 0, r |-> pull2(StackState).r, sp |-> SP, n |-> h_nbus + 1]

NextStack == StackPush \/ StackPush2 \/ StackPull \/ StackPull2

SpecStack == InitStack /\ [][NextStack]_vars


\* ---- the instruction boundary on its own ----

\* The registers a program may have left at an instruction boundary: SP next
\* to both ends of the stack page, P with and without I, PC with a low byte
\* and a high byte that differ
BoundarySPs == {\h00, \h01, \h02, \hFD}

BoundaryFlags == {\h20, \h24, \hE1}

BoundaryPCs == {\h80FF, \hC100}

\* run() after the clock loop of its first instruction, a STA abs ($8D, 4
\* cycles) at $8034, with the registers, the IRQ line, the NMI latch and the
\* stop flag as the program and the bus may have left them
InitBoundary ==
  /\ pc = "tick"
  /\ last_op = \h8D /\ last_PC = \h8034 /\ i = 4 /\ result_cycle = 0
  /\ SP \in BoundarySPs /\ P \in BoundaryFlags /\ PC \in BoundaryPCs
  /\ A = \h11 /\ X = \h22 /\ Y = \h33
  /\ IRQ \in BOOLEAN /\ do_NMI \in BOOLEAN /\ _done \in BOOLEAN
  /\ memory = [a \in 0..\h7ff |-> a % 251]
  /\ OAM = [k \in 0..255 |-> 0] /\ OAMADDR = 0
  /\ NMI_enabled = FALSE /\ vblanking = TRUE /\ scanline = 241 /\ cycle = 12
  /\ loopy_w = FALSE /\ scroll = 0 /\ vram = 0 /\ vramincr = FALSE
  /\ strobes = [c \in 0..1 |-> 0]
  /\ h_icount = 1 /\ h_clock = 4 /\ h_ticks = 4 /\ h_penalty = 0 /\ h_stack = <<>>
  /\ h_event = "reset" /\ h_vec = [addr |-> RESET_VECTOR, lo |-> \h34, hi |-> \h80]
  /\ h_pulls = (IF do_NMI THEN 1 ELSE 0) /\ h_served = 0 /\ h_nmi_tick = do_NMI
  /\ h_nev = (IF do_NMI THEN 1 ELSE 0) + (IF IRQ THEN 1 ELSE 0) + (IF _done THEN 1 ELSE 0)
  /\ h_dma = <<>> /\ h_sread = <<>> /\ h_vbl_tick = 1
  /\ h_write = <<>> /\ h_read = <<>> /\ h_nbus = 0

\* What run() does between the clock loop and the next fetch
NextBoundary == Stopped \/ ServiceIRQ \/ ServiceNMI \/ NoInterrupt

SpecBoundary == InitBoundary /\ [][NextBoundary]_vars

\* ------------------------------------------------------------------ the claims

\* A step of run() across an instruction boundary (the clock loop is over and
\* run() goes on to the next fetch, or stops)
BoundaryStep == AtBoundary /\ pc' # pc

\* The interrupt flag of P is clear
IClear == Bit(P, I_FLAG) = 0

\* The vector the last vector read returned
VecRead == h_vec.lo + 256 * h_vec.hi

\* ---- C1 ----
\* C1: for every instruction executed by CPU::run, bus->on_cpu_tick is called
\* exactly cycles[opcode] + penalty times, penalty being the addcyc calls made
\* while that instruction executed; the penalty counter is 0 again before the
\* next opcode is fetched (and so when the next instruction executes).
C1_TicksPerInstruction ==
  /\ pc = "tick" => h_ticks <= CyclesOf(last_op) + h_penalty
  /\ (AtBoundary \/ (pc \in {"fetch", "stopped"} /\ h_icount > 0))
       => h_ticks = CyclesOf(last_op) + h_penalty
  /\ pc = "fetch" => result_cycle = 0
  /\ pc \in {"exec", "tick"} => result_cycle = h_penalty

\* C1 witness: a taken branch to another page has signalled two extra cycles,
\* its four ticks have run and run() is at the next fetch
C1_Witness ==
  /\ pc = "fetch" /\ last_op = \hD0
  /\ h_penalty = 2 /\ h_ticks = 4 /\ result_cycle = 0

\* ---- C2 ----
\* C2: at an instruction boundary where an NMI is latched and the IRQ line is
\* held with the I flag clear, the CPU services the NMI (PC is loaded from
\* $FFFA/$FFFB and the NMI latch is cleared); the IRQ is considered only when no
\* NMI is latched.  (The statement of the claim: the code takes the IRQ branch.)
C2_NmiBeforeIrq ==
  [][(BoundaryStep /\ ~_done /\ do_NMI /\ IRQ /\ IClear)
       => (h_event' = "nmi" /\ h_vec'.addr = NMI_VECTOR /\ PC' \in NmiVectors /\ ~do_NMI')]_vars

\* ---- C3 ----
\* C3: an NMI pulse is consumed at most once: every NMI service finds the latch
\* set by at least one pull_NMI made since the previous service and clears it,
\* however many pull_NMI calls came before it; the latch is set only while such
\* a pull is unanswered, so no later boundary services an NMI without a new
\* pull_NMI.
C3_NmiConsumedOnce ==
  /\ [](do_NMI => h_pulls >= 1)
  /\ [][(BoundaryStep /\ h_event' = "nmi")
          => (do_NMI /\ h_pulls >= 1 /\ ~do_NMI' /\ h_pulls' = 0)]_vars
  /\ [][(BoundaryStep /\ h_vec'.addr = NMI_VECTOR /\ h_vec' # h_vec) => h_event' = "nmi"]_vars

\* C3 witness: two pull_NMI calls before one boundary were answered by one
\* service, which left the latch clear
C3_Witness ==
  /\ pc = "fetch" /\ h_event = "nmi" /\ h_served = 2
  /\ ~do_NMI /\ h_pulls = 0 /\ h_vec.addr = NMI_VECTOR


\* ---- C4 ----
\* C4: if pull_NMI is called while the clock ticks of an instruction are run,
\* the NMI is serviced at that instruction's boundary: before the next opcode
\* fetch the CPU pushes PC and P and loads PC from $FFFA/$FFFB.  (The statement
\* of the claim: with the IRQ line held and I clear the code services the IRQ
\* at that boundary.)
C4_NmiAtSameBoundary ==
  [][(BoundaryStep /\ ~_done /\ h_nmi_tick)
       => (/\ h_event' = "nmi" /\ h_vec'.addr = NMI_VECTOR /\ PC' \in NmiVectors
           /\ SP' = (SP - 3) % 256
           /\ memory'[\h100 + SP] = PC \div 256
           /\ memory'[\h100 + ((SP - 1) % 256)] = PC % 256
           /\ memory'[\h100 + ((SP - 2) % 256)] = ProcStatus)]_vars

\* ---- C5 ----
\* C5: IRQ is level-sensitive and maskable.  At every instruction boundary run()
\* goes on from with the IRQ line held and the I flag 0, the CPU enters the IRQ
\* handler: it pushes PC and P, sets I and loads PC from $FFFE/$FFFF, and the
\* line stays held (so the handler is entered again at each later boundary
\* where I is 0 again); an IRQ is serviced only with the line held and I = 0,
\* so never while I is 1 and never after release_IRQ.
C5_IrqLevelMasked ==
  /\ [][(BoundaryStep /\ ~_done /\ IRQ /\ IClear)
          => (/\ h_event' = "irq" /\ h_vec'.addr = IRQ_VECTOR /\ PC' = VecRead'
              /\ PC' \in IrqVectors
              /\ Bit(P', I_FLAG) = 1
              /\ IRQ'
              /\ SP' = (SP - 3) % 256
              /\ memory'[\h100 + SP] = PC \div 256
              /\ memory'[\h100 + ((SP - 1) % 256)] = PC % 256
              /\ memory'[\h100 + ((SP - 2) % 256)] = ProcStatus)]_vars
  /\ [][(BoundaryStep /\ (h_event' = "irq" \/ (h_vec'.addr = IRQ_VECTOR /\ h_vec' # h_vec)))
          => (IRQ /\ IClear /\ ~_done)]_vars

\* C5 witness: the line was pulled once and never released, and the handler has
\* been entered a second time (two frames are on the stack) after the first
\* handler's CLI
C5_Witness ==
  /\ pc = "fetch" /\ h_event = "irq" /\ h_icount = 2 /\ h_nev = 1
  /\ IRQ /\ SP = (SP_init - 6) % 256 /\ last_op = \h58

\* ---- C8 ----
\* C8: an instruction that writes $4014 stalls the CPU: the bus clock advances
\* by 513 or 514 cycles for the DMA, in addition to the cycles of the writing
\* instruction, before the next opcode is fetched.  (The statement of the
\* claim: the code runs the instruction's own cycles only.)
C8_DmaStall ==
  (AtBoundary /\ h_dma # <<>>)
    => h_ticks \in {CyclesOf(last_op) + h_penalty + 513, CyclesOf(last_op) + h_penalty + 514}

\* ---- C9 ----
\* C9: after reset, for the bytes lo at $FFFC and hi at $FFFD the cartridge
\* returns, PC = (hi << 8) | lo, SP = $FD and P = $24 before the first opcode is
\* fetched, and the first opcode is fetched from that PC.
C9_ResetVector ==
  /\ (pc = "fetch" /\ h_icount = 0)
       => (/\ h_vec.addr = \hfffc
           /\ PC = h_vec.hi * 256 + h_vec.lo
           /\ SP = \hFD /\ P = \h24)
  /\ (pc = "exec" /\ h_icount = 1)
       => (h_vec.addr = \hfffc /\ last_PC = h_vec.hi * 256 + h_vec.lo)

\* C9 witness: the cartridge returned $FE and $C1 and the first opcode has been
\* fetched from $C1FE
C9_Witness ==
  /\ pc = "exec" /\ h_icount = 1
  /\ h_vec = [addr |-> \hfffc, lo |-> \hFE, hi |-> \hC1] /\ last_PC = \hC1FE

\* ---- C10 ----
\* C10: the PPU dots of CPU cycle N are run before the memory access of CPU
\* cycle N+1, also within one instruction: when the dots of an earlier cycle of
\* an instruction set the vblank flag, the PPUSTATUS read the instruction makes
\* in a later cycle returns it set.  (The statement of the claim: the code runs
\* all accesses of an instruction before the first of its ticks.)
C10_DotsBeforeNextAccess ==
  (AtBoundary /\ h_sread # <<>> /\ h_vbl_tick # 0 /\ h_vbl_tick < h_sread.cyc)
    => Bit(h_sread.value, 7) = 1

\* ---- C6 ----
\* the addresses of $0000-$1FFF equal to addr modulo $0800
Mirrors(addr) == {(addr % \h800) + k * \h800 : k \in 0..3}

\* C6: for every address addr in $0000-$1FFF and byte v, after write(v, addr) a
\* read of addr and of every mirror of addr (every address of $0000-$1FFF equal
\* to addr modulo $0800) returns v; a write to an address outside $0000-$1FFF
\* changes the value no work-RAM address reads.
C6_RamMirrors ==
  /\ [](h_write # <<>> /\ h_write.addr < \h2000
          => \A m \in Mirrors(h_write.addr), e \in ExtBytes :
               CPU_read(m, e) = h_write.value)
  /\ [][(h_write' # h_write /\ h_write'.addr >= \h2000)
          => \A m \in 0..\h1FFF : CPU_read(m, 0)' = CPU_read(m, 0)]_vars

\* C6 witness: $80 was written to the mirror $0808 and $0008, which held $F7,
\* reads $80
C6_Witness ==
  /\ h_write # <<>> /\ h_write.addr = \h0808 /\ h_write.value = \h80
  /\ CPU_read(\h0008, 0) = \h80 /\ CPU_read(\h1808, 0) = \h80

\* ---- C7 ----
\* C7: for every byte value written to $4014, OAM DMA makes 256 OAMDATA writes
\* whose i-th byte is what the bus read of address (value << 8) + i returns;
\* with OAMADDR = a before the DMA, OAM[(a + i) mod 256] holds the i-th byte
\* afterwards and OAMADDR is a again.  (The statement of the claim, for the
\* pages whose reads change nothing: work RAM and the cartridge.  The code reads
\* page value & 7 of the work RAM.)
C7_DmaCopiesPage ==
  (h_write # <<>> /\ IsDmaWrite(h_write.addr)
     /\ (h_write.value < \h20 \/ h_write.value > \h40))
    => /\ OAMADDR = h_write.oamaddr
       /\ \A k \in 0..255, e \in ExtBytes :
            OAM[(h_write.oamaddr + k) % 256] = CPU_read(h_write.value * 256 + k, e)

\* ---- C11 ----
\* C11: the stop flag is sampled only between complete instructions.  After
\* stop() is called the instruction in progress runs all of its clock ticks;
\* run() terminates only at an instruction boundary, and at a boundary with the
\* flag set it terminates without fetching another opcode and without servicing
\* a pending NMI or IRQ (PC, SP, P, the stack, the NMI latch and the IRQ line
\* are left as they are and no vector is read); once terminated it takes no
\* further step.
C11_StopBetweenInstructions ==
  /\ [](pc = "stopped"
          => (_done /\ h_event = "stop" /\ h_ticks = CyclesOf(last_op) + h_penalty))
  /\ [][(pc' = "stopped" /\ pc # "stopped") => (AtBoundary /\ _done)]_vars
  /\ [][(BoundaryStep /\ _done)
          => (/\ pc' = "stopped"
              /\ UNCHANGED <<PC, SP, P, memory, do_NMI, IRQ, h_vec, h_icount>>)]_vars
  /\ [][(_done /\ pc = "tick" /\ i < LoopBound) => (pc' = "tick" /\ h_ticks' = h_ticks + 1)]_vars
  /\ [][pc # "stopped"]_vars

\* C11 witness: stop() was called during the four ticks of LDA abs while an NMI
\* was latched; all four ticks ran and run() terminated with the NMI unserviced
C11_Witness ==
  /\ pc = "stopped" /\ last_op = \hAD /\ h_ticks = 4
  /\ do_NMI /\ h_event = "stop" /\ h_vec.addr = RESET_VECTOR

\* ---- C12 ----
\* The addresses whose read is a bad read: the write-only PPU registers
\* (address & 7 in {0, 1, 3, 5, 6} within $2000-$3FFF) and $4000-$401F other
\* than $4015, $4016, $4017
IsBadRead(addr) ==
  \/ addr >= \h2000 /\ addr < \h4000 /\ addr % 8 \in {0, 1, 3, 5, 6}
  \/ addr >= \h4000 /\ addr < \h4020 /\ addr % 32 \notin {\h15, \h16, \h17}

\* C12: bad reads return 0 and have no side effect.  In every state the read
\* of each such address returns 0 whatever the PPU, the APU, the controllers or
\* the cartridge would answer, and a call of CPU::read with such an address
\* returns 0 and changes neither the CPU's nor the PPU's state.
C12_BadReads ==
  /\ [](\A addr \in \h2000..\h401F, e \in ExtBytes :
          IsBadRead(addr) => CPU_read(addr, e) = 0)
  /\ [][(h_read' # h_read /\ IsBadRead(h_read'.addr))
          => (h_read'.value = 0 /\ UNCHANGED <<cpuVars, ppuVars>>)]_vars

\* C12 witness: reads of OAMADDR ($2003) after $80 was written to it, with the
\* external side driving $A5, returned 0
C12_Witness ==
  /\ h_read # <<>> /\ h_read.addr = \h2003 /\ h_read.ext = \hA5 /\ h_read.value = 0
  /\ OAMADDR = \h80

\* ---- C13 ----
\* C13: a write to $4016 delivers the strobe to the controllers, bit 0 of the
\* written value being the strobe level: every write to $4016 is received by
\* each of the two controllers, so that after a write with bit 0 set and a
\* write with bit 0 clear each controller has been strobed and its 8 buttons
\* can be read.  (The statement of the claim: the code strobes only the
\* controller that bit 0 of the value selects.)
C13_StrobeBothControllers ==
  [][(h_write' # h_write /\ h_write'.addr = CONTROLLER_STROBE)
       => \A c \in 0..1 : strobes'[c] = strobes[c] + 1]_vars

\* ---- C14 ----
\* C14: executing an opcode whose entry of the cycle table is 0 halts the
\* interpreter: at the boundary of such an instruction run() terminates and
\* does not go on to fetch the following opcode.  (The statement of the claim:
\* the code goes on to the next fetch.)
C14_IllegalOpcodeHalts ==
  [][(BoundaryStep /\ CyclesOf(last_op) = 0) => pc' = "stopped"]_vars

\* ---- C15 ----
\* The addresses of PPUSTATUS: $2002 and its mirrors up to $3FFF
IsStatusAddr(addr) == addr \in \h2000..\h3FFF /\ addr % 8 = 2

\* A step that is one call of CPU::read with an address of PPUSTATUS
StatusReadStep == h_read' # h_read /\ IsStatusAddr(h_read'.addr)

\* The last operation made was a read of PPUSTATUS
JustReadStatus == h_read # <<>> /\ h_read.n = h_nbus /\ IsStatusAddr(h_read.addr)

C16_VramAddr15Bits == Bit(scroll, 15) = 0 /\ Bit(vram, 15) = 0

\* ---- C17 ----
\* C17: servicing an NMI sets the I flag: after every NMI service (PC pushed, P
\* pushed, PC loaded from $FFFA/$FFFB) the I flag of P is 1, so that an IRQ
\* line held during the NMI handler is not serviced until the handler clears
\* I.  (The statement of the claim: the code's NMI branch leaves P as it is.)
C17_NmiSetsI ==
  [][(BoundaryStep /\ h_event' = "nmi") => Bit(P', I_FLAG) = 1]_vars

\* ---- C18 ----
\* C18: reset and every interrupt entry (NMI service, IRQ service) each consume
\* 7 CPU cycles: the bus clock has been advanced 7 times when the first opcode
\* is fetched after reset, and every interrupt service advances it by 7, in
\* addition to the cycles of the instructions before and after it.  (The
\* statement of the claim: the code advances the clock in the clock loop of an
\* instruction only.)
C18_EntryTakes7Cycles ==
  /\ []((pc = "fetch" /\ h_icount = 0) => h_clock = 7)
  /\ [][(BoundaryStep /\ h_event' \in {"nmi", "irq"}) => h_clock' = h_clock + 7]_vars

\* ---- C19 ----
\* A step that is one stack call of the given kind
StackStep(op) == h_stack' # h_stack /\ h_stack'.op = op

\* The last call made was the given one
JustDid(op) == h_stack # <<>> /\ h_stack.n = h_nbus /\ h_stack.op = op

\* The work-RAM cell of stack pointer value s
StackCell(s) == \h100 + (s % 256)

\* Every cell of the work RAM but those of the given set is left as it is
OnlyWrites(cells) == \A a \in 0..\h7FF : a \notin cells => memory'[a] = memory[a]

\* What C19 says of SP, of the cells touched and of the round trips; the byte
\* order of push2 apart
StackBehaviour ==
  /\ [](SP \in 0..255)
  /\ [][StackStep("push")
          => (/\ SP' = (SP - 1) % 256
              /\ memory'[StackCell(SP)] = h_stack'.x
              /\ StackCell(SP) \in \h100..\h1FF
              /\ OnlyWrites({StackCell(SP)}))]_vars
  /\ [][StackStep("push2")
          => (/\ SP' = (SP - 2) % 256
              /\ memory'[StackCell(SP)] = h_stack'.x \div 256
              /\ memory'[StackCell(SP - 1)] = h_stack'.x % 256
              /\ {StackCell(SP), StackCell(SP - 1)} \subseteq \h100..\h1FF
              /\ OnlyWrites({StackCell(SP), StackCell(SP - 1)}))]_vars
  /\ [][StackStep("pull")
          => (/\ SP' = (SP + 1) % 256
              /\ h_stack'.r = memory[StackCell(SP + 1)]
              /\ StackCell(SP + 1) \in \h100..\h1FF
              /\ memory' = memory)]_vars
  /\ [][StackStep("pull2")
          => (/\ SP' = (SP + 2) % 256
              /\ h_stack'.r = memory[StackCell(SP + 1)] + 256 * memory[StackCell(SP + 2)]
              /\ {StackCell(SP + 1), StackCell(SP + 2)} \subseteq \h100..\h1FF
              /\ memory' = memory)]_vars
  /\ [][(JustDid("push") /\ StackStep("pull"))
          => (h_stack'.r = h_stack.x /\ SP' = h_stack.sp)]_vars
  /\ [][(JustDid("push2") /\ StackStep("pull2"))
          => (h_stack'.r = h_stack.x /\ SP' = h_stack.sp)]_vars

\* C19: SP stays in [0, $FF] under every sequence of push, push2, pull and
\* pull2: push decrements and pull increments SP modulo 256, every stack access
\* touches only work RAM $0100-$01FF (also when SP wraps), push(x) followed by
\* pull returns x and restores SP, and push2(x) followed by pull2 returns x,
\* the high byte being stored at the higher address.  (The statement of the
\* claim: push2 with SP = 0 stores the high byte at $0100 and the low byte at
\* $01FF.)
C19_StackHighByteHigher ==
  /\ StackBehaviour
  /\ [][StackStep("push2")
          => (/\ memory'[StackCell(SP)] = h_stack'.x \div 256
              /\ memory'[StackCell(SP - 1)] = h_stack'.x % 256
              /\ StackCell(SP) > StackCell(SP - 1))]_vars

\* C19 as amended: the same, the high byte of push2 being stored at $0100 + SP
\* and the low byte at $0100 + ((SP - 1) mod 256), which is the higher address
\* for the high byte unless SP = 0, where the low byte wraps to $01FF.
C19_StackWraps ==
  /\ StackBehaviour
  /\ [][StackStep("push2")
          => (StackCell(SP) > StackCell(SP - 1) <=> SP # 0)]_vars

\* C19 witness: push2($12AB) with SP = 0 stored $12 at $0100 and $AB at $01FF
\* and left SP = $FE; the pull2 that followed returned $12AB and restored SP = 0
C19_Witness ==
  /\ JustDid("pull2") /\ h_stack.r = \h12AB /\ h_stack.sp = \hFE /\ SP = 0
  /\ memory[\h1FF] = \hAB /\ memory[\h100] = \h12

\* ---- C20 ----
\* The boundary before the instruction in progress serviced an IRQ while an NMI
\* was latched, and the NMI is still waiting: the latch is set and no pull_NMI
\* came during this instruction's ticks
NmiPassedOver == h_event = "irq" /\ do_NMI /\ ~h_nmi_tick

\* C20: an NMI latched at a boundary where an IRQ is serviced instead is not
\* lost: the latch stays set through the IRQ service, and the NMI is serviced
\* at a later instruction boundary while the CPU keeps running and is not
\* stopped.  A later boundary is taken here as the next one run() goes on
\* from, the only one each explored run is sure to have; what the code does at
\* it, it does at every boundary after it.  (The statement of the claim: when
\* the instruction after the IRQ service is CLI and the line is still held,
\* the code services the IRQ again and the NMI keeps waiting.)
C20_NmiServicedLater ==
  /\ [][(BoundaryStep /\ h_event' = "irq" /\ do_NMI) => do_NMI']_vars
  /\ [][(BoundaryStep /\ ~_done /\ NmiPassedOver) => h_event' = "nmi"]_vars

\* ---- C21 ----
\* A boundary step that serviced an interrupt
ServiceStep == BoundaryStep /\ h_event' \in {"irq", "nmi"}

\* The three work-RAM cells of an interrupt frame pushed with the present SP
FrameCells == {StackCell(SP), StackCell(SP - 1), StackCell(SP - 2)}

\* What C21 says of an interrupt service, the order of the three addresses
\* apart: PC high, PC low and P go to the stack page at $0100 + SP and the two
\* cells below it modulo 256, SP ends 3 lower modulo 256, PC is the vector's
\* content, and A, X, Y, the IRQ line and the rest of the work RAM are as
\* before; a boundary services one interrupt at most: a step that services the
\* IRQ leaves the NMI latch as it is, one that services neither writes nothing
FrameEffect ==
  /\ [][ServiceStep
          => (/\ memory'[StackCell(SP)] = PC \div 256
              /\ memory'[StackCell(SP - 1)] = PC % 256
              /\ memory'[StackCell(SP - 2)] = P
              /\ FrameCells \subseteq \h100..\h1FF
              /\ OnlyWrites(FrameCells)
              /\ SP' = (SP - 3) % 256
              /\ h_vec'.addr = (IF h_event' = "irq" THEN \hFFFE ELSE \hFFFA)
              /\ PC' = h_vec'.lo + 256 * h_vec'.hi
              /\ A' = A /\ X' = X /\ Y' = Y /\ IRQ' = IRQ)]_vars
  /\ [][(BoundaryStep /\ h_event' = "irq") => do_NMI' = do_NMI]_vars
  /\ [][(BoundaryStep /\ h_event' = "nmi") => (do_NMI /\ ~do_NMI')]_vars
  /\ [][(BoundaryStep /\ ~ServiceStep)
          => (memory' = memory /\ SP' = SP /\ PC' = PC /\ do_NMI' = do_NMI)]_vars

\* C21: an interrupt service (IRQ or NMI) writes exactly three bytes to the
\* stack page, PC high, PC low, then P, at descending addresses, leaves SP
\* decreased by 3 modulo 256, loads PC from the vector, and leaves A, X, Y, the
\* IRQ line level and all work RAM outside the three stack bytes unchanged; at
\* most one interrupt is serviced per instruction boundary.  (The statement of
\* the claim: with SP = 1 the status byte goes to $01FF, above the two bytes of
\* PC, and with SP = 0 both PC low and the status byte go above PC high.)
C21_FrameDescending ==
  /\ FrameEffect
  /\ [][ServiceStep
          => (StackCell(SP) > StackCell(SP - 1) /\ StackCell(SP - 1) > StackCell(SP - 2))]_vars

\* C21 as amended: the same, the three bytes going to $0100 + SP,
\* $0100 + ((SP - 1) mod 256) and $0100 + ((SP - 2) mod 256), which are
\* descending addresses unless SP is 0 or 1, where the frame wraps to $01FF.
C21_FrameWraps ==
  /\ FrameEffect
  /\ [][ServiceStep
          => ((StackCell(SP) > StackCell(SP - 1) /\ StackCell(SP - 1) > StackCell(SP - 2))
                <=> SP >= 2)]_vars

\* C21 witness: an IRQ was serviced at a boundary that had the NMI latched too,
\* with SP = 1 and PC = $80FF: $80 is at $0101, $FF at $0100, the status byte
\* at $01FF, SP is $FE, PC is the IRQ vector's content and the NMI is still
\* latched
C21_Witness ==
  /\ pc = "fetch" /\ h_event = "irq" /\ do_NMI
  /\ SP = \hFE /\ PC = \h9000
  /\ memory[\h101] = \h80 /\ memory[\h100] = \hFF /\ memory[\h1FF] \in BoundaryFlags
  /\ A = \h11 /\ X = \h22 /\ Y = \h33 /\ IRQ

====
